---- MODULE Spec2Model ----
(***************************************************************************)
(* A model of the self-improving incident agent:                           *)
(*   - the experience memory of self_improving_agent/tools.py: one JSON    *)
(*     file shared by every process that imports the module, and one       *)
(*     in-memory list (_EXPERIENCE_MEMORY) per process;                    *)
(*   - the agent pipeline of self_improving_agent/agent.py: triage,        *)
(*     resolution, the critic/refiner loop (max_iterations = 5) and the    *)
(*     optional narrator, over one session state.                          *)
(*                                                                         *)
(* Scores are integers: a score passed to store_experience is a number of  *)
(* ten-thousandths (8496 is 0.8496), a stored score a number of            *)
(* thousandths (850 is 0.85).  Text is a sequence of one-character         *)
(* strings, so that lower(), strip() and `in` are computed, not assumed.   *)
(***************************************************************************)
EXTENDS Integers, Sequences, FiniteSets, TLC

\* ------------------------------------------------------------ bounds
\* The longest list a process lets store_experience grow.
MaxStore == 3
\* Processes that may import tools.py against the same file.
NProcs == 2
\* Incidents run through the pipeline by one process.
MaxRuns == 2

Procs == 1..NProcs
\* The process of the single-writer specifications.
Writer == 1

\* ------------------------------------------------------------ text
UpperChars == <<"A","B","C","D","E","F","G","H","I","J","K","L","M",
                "N","O","P","Q","R","S","T","U","V","W","X","Y","Z">>
LowerChars == <<"a","b","c","d","e","f","g","h","i","j","k","l","m",
                "n","o","p","q","r","s","t","u","v","w","x","y","z">>
Whitespace == {" ", "\t", "\n", "\r"}

\* str.lower(), one character.
ToLower(c) ==
  IF \E i \in DOMAIN UpperChars : UpperChars[i] = c
  THEN LowerChars[CHOOSE i \in DOMAIN UpperChars : UpperChars[i] = c]
  ELSE c

\* str.lower()
StrLower(s) == [i \in 1..Len(s) |-> ToLower(s[i])]

RECURSIVE LStrip(_)
LStrip(s) ==
  IF s # <<>> /\ Head(s) \in Whitespace THEN LStrip(Tail(s)) ELSE s

RECURSIVE RStrip(_)
RStrip(s) ==
  IF s # <<>> /\ s[Len(s)] \in Whitespace
  THEN RStrip(SubSeq(s, 1, Len(s) - 1))
  ELSE s

\* str.strip()
StrStrip(s) == RStrip(LStrip(s))

\* category.lower().strip()
Normalize(s) == StrStrip(StrLower(s))

\* s starts with t
StartsWith(s, t) == Len(t) <= Len(s) /\ SubSeq(s, 1, Len(t)) = t

\* Python's `needle in hay` on str: a scan for the first position where
\* hay continues with needle.
RECURSIVE Contains(_, _)
Contains(needle, hay) ==
  IF StartsWith(hay, needle) THEN TRUE
  ELSE IF hay = <<>> THEN FALSE
  ELSE Contains(needle, Tail(hay))

\* bytes: a sequence of bytes, each written as Python prints it.  The
\* bytes here are those of b"CPU " and of its lowercase.
ByteChars == {"\\x43", "\\x50", "\\x55", "\\x63", "\\x70", "\\x75", "\\x20"}
ByteLower(b) ==
  CASE b = "\\x43" -> "\\x63"
    [] b = "\\x50" -> "\\x70"
    [] b = "\\x55" -> "\\x75"
    [] OTHER -> b

IsBytes(v) == v # <<>> /\ v[1] \in ByteChars

\* bytes.lower().strip()
RECURSIVE BytesStrip(_)
BytesStrip(b) ==
  IF b = <<>> THEN b
  ELSE IF Head(b) = "\\x20" THEN BytesStrip(Tail(b))
  ELSE IF b[Len(b)] = "\\x20" THEN BytesStrip(SubSeq(b, 1, Len(b) - 1))
  ELSE b

BytesNormalize(b) == BytesStrip([i \in 1..Len(b) |-> ByteLower(b[i])])

\* ------------------------------------------------------------ numbers
Min(a, b) == IF a <= b THEN a ELSE b
Max(a, b) == IF a >= b THEN a ELSE b

\* The nearest integer to n / d (d > 0), a tie to the even neighbour, as
\* Python's round() does on an exact tie.
RoundDiv(n, d) ==
  LET q == n \div d
      r == n % d
  IN  IF 2 * r < d THEN q
      ELSE IF 2 * r > d THEN q + 1
      ELSE IF q % 2 = 0 THEN q ELSE q + 1

\* round(score, 3): ten-thousandths to thousandths.
Round3(score) == RoundDiv(score, 10)

\* ------------------------------------------------------------ the file
\* The file is absent ("none"), open-truncated and not yet written
\* ("empty": zero bytes, which json.loads rejects), or a JSON array, written
\* here as one row <<id, timestamp, category, resolution, score>> per
\* object, in the key order json.dumps keeps.
NoFile == [kind |-> "none", rows |-> <<>>]
EmptyFile == [kind |-> "empty", rows |-> <<>>]

\* A mutant of JsonDumps: the last record is not written.
JsonDumpsDropLast(list) ==
  [kind |-> "json",
   rows |-> [i \in 1..(Len(list) - 1) |->
               <<list[i].id, list[i].timestamp, list[i].category,
                 list[i].resolution, list[i].score>>]]

\* json.dumps(_EXPERIENCE_MEMORY, indent=2)
JsonDumps(list) ==
  [kind |-> "json",
   rows |-> [i \in 1..Len(list) |->
               <<list[i].id, list[i].timestamp, list[i].category,
                 list[i].resolution, list[i].score>>]]

\* json.loads(text) of a JSON array written by JsonDumps.
JsonLoads(text) ==
  [i \in 1..Len(text.rows) |->
     [id |-> text.rows[i][1], timestamp |-> text.rows[i][2],
      category |-> text.rows[i][3], resolution |-> text.rows[i][4],
      score |-> text.rows[i][5]]]

\* ------------------------------------------------------------ inputs
Cpu == <<"c","p","u">>
CpuShout == <<" ","C","P","U">>
Network == <<"N","e","t","w","o","r","k"," ">>
Ssl == <<"s","s","l">>
Net == <<"n","e","t">>
Disk == <<"d","i","s","k">>

\* Categories passed to store_experience and to retrieve_experiences.
StoreCategories == {CpuShout, Network, Ssl}
QueryCategories == {Net, Disk, CpuShout}
\* Scores passed to store_experience, in ten-thousandths.
StoreScores == {6000, 7504, 9000}
TopKs == {-1, 0, 1, 2, 3}

\* The calls of store_experience: every category with every score, and one
\* call that differs in its resolution text and in the time it is made.
StoreInputs ==
  {[category |-> c, resolution |-> "restart the service", score |-> s,
    now |-> "2026-01-01T09:00:00"] : c \in StoreCategories, s \in StoreScores}
  \cup {[category |-> Cpu, resolution |-> "roll back the deployment",
          score |-> 9000, now |-> "2026-01-02T17:30:00"]}

\* ------------------------------------------------------------ state
VARIABLES
  file,   \* experience_memory.json
  mem,    \* mem[p]: _EXPERIENCE_MEMORY of process p
  pc,     \* pc[p]: "off" (not imported), "idle", "save_open" and "save_write"
          \* (in _save_memory), "done" (a tool has returned or raised)
  call,   \* call[p]: the tool call process p made last (or is making)
  ret,    \* ret[p]: what that call returned or raised
  log,    \* history: the store calls completed since the last completed clear
  issued, \* history: the ids store calls have returned
  elevenlabs,    \* _ELEVENLABS_AVAILABLE
  mcp_tools,     \* _mcp_tools: the optional toolsets that were loaded
  stage,         \* the agent of the pipeline that runs next, or how the run ended
  session,       \* the session state the agents share
  times_looped,  \* the loop agent's count of completed iterations
  loop,          \* the loop: "not_started", "iterating", or how it ended
  run            \* the current run: its number, the iteration in which
                 \* its critic first scores 0.85 or more (0: in none) and
                 \* that score, how often its critic, its refiner and
                 \* store_experience have run, the file as it was when
                 \* the run began, and whether quality_achieved was True
                 \* in the session it began with

\* What the agent pipeline adds to the state of tools.py.
agent == <<elevenlabs, mcp_tools, stage, session, times_looped, loop, run>>

vars == <<file, mem, pc, call, ret, log, issued, agent>>

NoCall == [op |-> "none"]
NoRet == [raised |-> FALSE, value |-> [status |-> "none"]]
Raised(e) == [raised |-> TRUE, value |-> [status |-> e]]
Returned(v) == [raised |-> FALSE, value |-> v]

\* A session state key nobody has written.
Unset == [by |-> "nobody"]

\* The state of a new session.
EmptySession ==
  [triage_report |-> Unset, resolution_proposal |-> Unset,
   evaluation_result |-> Unset, narration |-> Unset,
   quality_achieved |-> FALSE]

\* No run yet.
NoRun ==
  [n |-> 0, first_pass |-> 0, pass_score |-> 0, critics |-> 0,
   refiners |-> 0, stores |-> 0, before |-> NoFile, stale |-> FALSE]

\* No process has imported tools.py and the file does not exist.
InitTools ==
  /\ file = NoFile
  /\ mem = [p \in Procs |-> <<>>]
  /\ pc = [p \in Procs |-> "off"]
  /\ call = [p \in Procs |-> NoCall]
  /\ ret = [p \in Procs |-> NoRet]
  /\ log = <<>>
  /\ issued = {}

\* The optional toolsets _load_mcp_tools knows.
McpServers == {"servicenow", "elevenlabs", "perplexity"}

\* agent.py is loaded in an environment that holds the keys env, and the
\* toolsets loaded were built without raising; nothing has run.
InitAgentEnv(env, loaded) ==
  /\ elevenlabs = ("elevenlabs" \in env)
  /\ mcp_tools = loaded
  /\ stage = "idle"
  /\ session = EmptySession
  /\ times_looped = 0
  /\ loop = "not_started"
  /\ run = NoRun

\* agent.py is loaded, with or without the ElevenLabs key and with no other
\* key; nothing has run.
InitAgent(key) ==
  /\ elevenlabs = key
  /\ mcp_tools = IF key THEN {"elevenlabs"} ELSE {}
  /\ stage = "idle"
  /\ session = EmptySession
  /\ times_looped = 0
  /\ loop = "not_started"
  /\ run = NoRun

Init == InitTools /\ InitAgent(FALSE)

\* ------------------------------------------------------------ tools.py
\* _load_memory: the list after the call, given the list before it.
LoadMemory(list) == IF file.kind = "none" THEN list ELSE JsonLoads(file)

\* A mutant of NewEntry: the id is the list's length, not length + 1.
NewEntryIdFromZero(list, category, resolution, score, now) ==
  [id |-> Len(list), timestamp |-> now, category |-> Normalize(category),
   resolution |-> resolution, score |-> Round3(score)]

\* The entry store_experience builds.
NewEntry(list, category, resolution, score, now) ==
  [id |-> Len(list) + 1, timestamp |-> now, category |-> Normalize(category),
   resolution |-> resolution, score |-> Round3(score)]

\* A mutant of Relevant: the query is matched as typed.
RelevantRawQuery(list, category) ==
  SelectSeq(list, LAMBDA e : Contains(category, e.category))

\* The list comprehension of retrieve_experiences.
Relevant(list, category) ==
  SelectSeq(list, LAMBDA e : Contains(Normalize(category), e.category))

\* e put into a list sorted by score, best first, behind every entry that
\* scores at least as much.
RECURSIVE InsertByScore(_, _)
InsertByScore(sorted, e) ==
  IF sorted = <<>> THEN <<e>>
  ELSE IF Head(sorted).score >= e.score
       THEN <<Head(sorted)>> \o InsertByScore(Tail(sorted), e)
       ELSE <<e>> \o sorted

RECURSIVE InsertAll(_, _)
InsertAll(sorted, rest) ==
  IF rest = <<>> THEN sorted
  ELSE InsertAll(InsertByScore(sorted, Head(rest)), Tail(rest))

\* A mutant of SortByScore: ascending order.
RECURSIVE SortAscending(_)
SortAscending(list) ==
  IF list = <<>> THEN <<>>
  ELSE LET m == CHOOSE i \in 1..Len(list) :
                  \A j \in 1..Len(list) :
                    \/ list[i].score < list[j].score
                    \/ (list[i].score = list[j].score /\ i <= j)
       IN  <<list[m]>> \o
           SortAscending(SubSeq(list, 1, m - 1) \o SubSeq(list, m + 1, Len(list)))

\* relevant.sort(key=lambda x: x["score"], reverse=True): list.sort is
\* stable, also with reverse=True.
SortByScore(list) == InsertAll(<<>>, list)

\* list[:k]
SliceTo(list, k) ==
  IF k >= 0 THEN SubSeq(list, 1, Min(k, Len(list)))
  ELSE SubSeq(list, 1, Max(0, Len(list) + k))

\* What retrieve_experiences returns from the refreshed list.
RetrieveResult(list, category, top_k) ==
  LET relevant == SortByScore(Relevant(list, category))
  IN  [category_searched |-> Normalize(category),
       experiences |-> SliceTo(relevant, top_k),
       total_matching |-> Len(relevant),
       total_stored |-> Len(list)]

RECURSIVE SumScores(_)
SumScores(list) ==
  IF list = <<>> THEN 0 ELSE Head(list).score + SumScores(Tail(list))

RECURSIVE MaxScore(_)
MaxScore(list) ==
  IF Len(list) = 1 THEN list[1].score
  ELSE Max(Head(list).score, MaxScore(Tail(list)))

\* The result of get_improvement_stats for an empty list.
EmptyStats == [message |-> "No experiences stored yet.", count |-> 0]

\* A mutant of StatsResult: a list of one record counts as empty.
StatsResultEmptyBelowTwo(list) ==
  IF Len(list) <= 1 THEN EmptyStats
  ELSE [total_resolutions |-> Len(list),
        best_score |-> MaxScore(list)]

\* A mutant of StatsResult: the latest score is the highest one, and the
\* improvement is counted from the lowest to the highest.
StatsResultLatestIsBest(list) ==
  IF list = <<>>
  THEN EmptyStats
  ELSE [total_resolutions |-> Len(list),
        overall_average_score |-> RoundDiv(SumScores(list), Len(list)),
        best_score |-> MaxScore(list),
        latest_score |-> MaxScore(list),
        improvement_first_to_last |-> MaxScore(list) - list[1].score,
        by_category |->
          [c \in {list[i].category : i \in 1..Len(list)} |->
             LET s == SelectSeq(list, LAMBDA e : e.category = c)
             IN  [count |-> Len(s), avg |-> RoundDiv(SumScores(s), Len(s))]]]

\* What get_improvement_stats returns from the refreshed list.  An average
\* of stored scores is rounded to 3 decimals, so it is again a number of
\* thousandths.
StatsResult(list) ==
  IF list = <<>>
  THEN EmptyStats
  ELSE [total_resolutions |-> Len(list),
        overall_average_score |-> RoundDiv(SumScores(list), Len(list)),
        best_score |-> MaxScore(list),
        latest_score |-> list[Len(list)].score,
        improvement_first_to_last |-> list[Len(list)].score - list[1].score,
        by_category |->
          [c \in {list[i].category : i \in 1..Len(list)} |->
             LET s == SelectSeq(list, LAMBDA e : e.category = c)
             IN  [count |-> Len(s), avg |-> RoundDiv(SumScores(s), Len(s))]]]

\* What get_experience_timeline returns from the refreshed list.
TimelineResult(list) ==
  [i \in 1..Len(list) |->
     [index |-> i, timestamp |-> list[i].timestamp,
      category |-> list[i].category, score |-> list[i].score,
      cumulative_avg |-> RoundDiv(SumScores(SubSeq(list, 1, i)), i)]]

\* tools.py is imported by process p (a start, or a restart after Exit):
\* the module-level list is empty and _load_memory runs.
Import(p) ==
  /\ pc[p] = "off"
  /\ file.kind # "empty"
  /\ mem' = [mem EXCEPT ![p] = LoadMemory(<<>>)]
  /\ pc' = [pc EXCEPT ![p] = "done"]
  /\ call' = [call EXCEPT ![p] = [op |-> "import"]]
  /\ ret' = [ret EXCEPT ![p] = NoRet]
  /\ UNCHANGED <<file, log, issued, agent>>

\* The import meets a file another process has opened for writing and not
\* written yet: json.loads raises and the module is not imported.
ImportFails(p) ==
  /\ pc[p] = "off"
  /\ file.kind = "empty"
  /\ ret[p] = NoRet
  /\ ret' = [ret EXCEPT ![p] = Raised("JSONDecodeError")]
  /\ UNCHANGED <<file, mem, pc, call, log, issued, agent>>

\* Process p ends; its list is lost, the file stays.
Exit(p) ==
  /\ pc[p] = "idle"
  /\ mem' = [mem EXCEPT ![p] = <<>>]
  /\ pc' = [pc EXCEPT ![p] = "off"]
  /\ UNCHANGED <<file, call, ret, log, issued, agent>>

\* store_experience up to its call of _save_memory: the entry is built from
\* the list in memory and appended to it.  The list and the history of
\* completed stores are kept within MaxStore.
StoreBegin(p, category, resolution, score, now) ==
  /\ pc[p] = "idle"
  /\ Len(mem[p]) < MaxStore
  /\ Len(log) < MaxStore
  /\ LET entry == NewEntry(mem[p], category, resolution, score, now)
     IN  /\ mem' = [mem EXCEPT ![p] = Append(mem[p], entry)]
         /\ call' = [call EXCEPT ![p] =
              [op |-> "store_experience", category |-> category,
               resolution |-> resolution, score |-> score, entry |-> entry,
               completed |-> Len(log)]]
  /\ pc' = [pc EXCEPT ![p] = "save_open"]
  /\ ret' = [ret EXCEPT ![p] = NoRet]
  /\ UNCHANGED <<file, log, issued, agent>>

\* clear_experience_memory up to its call of _save_memory.
ClearBegin(p) ==
  /\ pc[p] = "idle"
  /\ mem' = [mem EXCEPT ![p] = <<>>]
  /\ pc' = [pc EXCEPT ![p] = "save_open"]
  /\ call' = [call EXCEPT ![p] = [op |-> "clear_experience_memory"]]
  /\ ret' = [ret EXCEPT ![p] = NoRet]
  /\ UNCHANGED <<file, log, issued, agent>>

\* json.dumps takes str, numbers, lists and dicts; bytes make it raise.
Serializable(list) == \A i \in 1..Len(list) : ~IsBytes(list[i].category)

\* _save_memory, first half: json.dumps has made the text and
\* Path.write_text opens the file for writing, which truncates it.
SaveOpen(p) ==
  /\ pc[p] = "save_open"
  /\ Serializable(mem[p])
  /\ file' = EmptyFile
  /\ pc' = [pc EXCEPT ![p] = "save_write"]
  /\ UNCHANGED <<mem, call, ret, log, issued, agent>>

\* What the caller of store_experience or clear_experience_memory gets once
\* _save_memory has returned.
SaveReturn(p) ==
  IF call[p].op = "store_experience"
  THEN Returned([status |-> "stored",
                 experience_id |-> call[p].entry.id,
                 total_experiences |-> Len(mem[p])])
  ELSE Returned([status |-> "cleared", total_experiences |-> 0])

\* The history of completed calls: a store adds its arguments, the entry it
\* built and the id it returned, a clear starts the history again.
Logged(p) ==
  IF call[p].op = "store_experience"
  THEN Append(log, [proc |-> p, category |-> call[p].category,
                    resolution |-> call[p].resolution,
                    score |-> call[p].score,
                    entry |-> call[p].entry,
                    experience_id |-> call[p].entry.id])
  ELSE <<>>

\* The history of ids once a store call has returned id.
Issued(id) == issued \cup {id}

\* _save_memory, second half: the whole list is written, and the tool
\* returns.
SaveWrite(p) ==
  /\ pc[p] = "save_write"
  /\ file' = JsonDumps(mem[p])
  /\ pc' = [pc EXCEPT ![p] = "done"]
  /\ ret' = [ret EXCEPT ![p] = SaveReturn(p)]
  /\ log' = Logged(p)
  /\ issued' = IF call[p].op = "store_experience"
               THEN Issued(call[p].entry.id) ELSE issued
  /\ UNCHANGED <<mem, call, agent>>

\* Path.write_text fails to open the file (no permission, no such
\* directory): the file is as it was, the exception leaves the tool.
SaveOpenFails(p) ==
  /\ pc[p] = "save_open"
  /\ pc' = [pc EXCEPT ![p] = "done"]
  /\ ret' = [ret EXCEPT ![p] = Raised("OSError")]
  /\ UNCHANGED <<file, mem, call, log, issued, agent>>

\* Path.write_text fails to write (disk full): the file stays truncated,
\* the exception leaves the tool.
SaveWriteFails(p) ==
  /\ pc[p] = "save_write"
  /\ pc' = [pc EXCEPT ![p] = "done"]
  /\ ret' = [ret EXCEPT ![p] = Raised("OSError")]
  /\ UNCHANGED <<file, mem, call, log, issued, agent>>

\* A mutant of Retrieve: the list in memory is left sorted by score.
RetrieveSortsInPlace(p, category, top_k) ==
  /\ pc[p] = "idle"
  /\ file.kind # "empty"
  /\ LET list == LoadMemory(mem[p])
     IN  /\ mem' = [mem EXCEPT ![p] = SortByScore(list)]
         /\ ret' = [ret EXCEPT ![p] =
                      Returned(RetrieveResult(list, category, top_k))]
  /\ call' = [call EXCEPT ![p] =
       [op |-> "retrieve_experiences", category |-> category,
        top_k |-> top_k, completed |-> Len(log)]]
  /\ pc' = [pc EXCEPT ![p] = "done"]
  /\ UNCHANGED <<file, log, issued, agent>>

\* retrieve_experiences: refresh from the file, filter, sort, cut.  The call
\* remembers how many store calls had completed when it began.
Retrieve(p, category, top_k) ==
  /\ pc[p] = "idle"
  /\ file.kind # "empty"
  /\ LET list == LoadMemory(mem[p])
     IN  /\ mem' = [mem EXCEPT ![p] = list]
         /\ ret' = [ret EXCEPT ![p] =
                      Returned(RetrieveResult(list, category, top_k))]
  /\ call' = [call EXCEPT ![p] =
       [op |-> "retrieve_experiences", category |-> category,
        top_k |-> top_k, completed |-> Len(log)]]
  /\ pc' = [pc EXCEPT ![p] = "done"]
  /\ UNCHANGED <<file, log, issued, agent>>

\* get_improvement_stats
Stats(p) ==
  /\ pc[p] = "idle"
  /\ file.kind # "empty"
  /\ LET list == LoadMemory(mem[p])
     IN  /\ mem' = [mem EXCEPT ![p] = list]
         /\ ret' = [ret EXCEPT ![p] = Returned(StatsResult(list))]
  /\ call' = [call EXCEPT ![p] = [op |-> "get_improvement_stats"]]
  /\ pc' = [pc EXCEPT ![p] = "done"]
  /\ UNCHANGED <<file, log, issued, agent>>

\* get_experience_timeline
Timeline(p) ==
  /\ pc[p] = "idle"
  /\ file.kind # "empty"
  /\ LET list == LoadMemory(mem[p])
     IN  /\ mem' = [mem EXCEPT ![p] = list]
         /\ ret' = [ret EXCEPT ![p] = Returned(TimelineResult(list))]
  /\ call' = [call EXCEPT ![p] = [op |-> "get_experience_timeline"]]
  /\ pc' = [pc EXCEPT ![p] = "done"]
  /\ UNCHANGED <<file, log, issued, agent>>

\* A reading tool meets a file that is open for writing and not written
\* yet: json.loads in _load_memory raises, the list is as it was.
ReadFails(p, op) ==
  /\ pc[p] = "idle"
  /\ file.kind = "empty"
  /\ call' = [call EXCEPT ![p] = [op |-> op]]
  /\ ret' = [ret EXCEPT ![p] = Raised("JSONDecodeError")]
  /\ pc' = [pc EXCEPT ![p] = "done"]
  /\ UNCHANGED <<file, mem, log, issued, agent>>

\* Arguments of store_experience that are not what its signature says:
\* a category that is None, an int or bytes, a score that is a str or None.
CpuBytes == <<"\\x43", "\\x50", "\\x55", "\\x20">>
MalformedInputs ==
  {[category |-> c, resolution |-> "restart the service", score |-> sc,
    now |-> "2026-01-03T11:00:00"] :
     c \in {[type |-> "str", value |-> Cpu], [type |-> "NoneType"],
            [type |-> "int"], [type |-> "bytes", value |-> CpuBytes]},
     sc \in {[type |-> "float", value |-> 9000], [type |-> "str"],
             [type |-> "NoneType"]}}
    \ {[category |-> [type |-> "str", value |-> Cpu],
        resolution |-> "restart the service",
        score |-> [type |-> "float", value |-> 9000],
        now |-> "2026-01-03T11:00:00"]}

\* store_experience with such arguments.  The entry is built key by key:
\* category.lower() raises AttributeError when the category has no lower,
\* then round(score, 3) raises TypeError when the score has no __round__,
\* both before the append.  bytes have lower and strip: the entry is
\* appended and json.dumps raises TypeError in _save_memory, before the
\* file is opened.
StoreMalformed(p, category, resolution, score, now) ==
  /\ pc[p] = "idle"
  /\ Len(mem[p]) < MaxStore
  /\ category.type # "str" \/ score.type # "float"
  /\ call' = [call EXCEPT ![p] =
       [op |-> "store_experience", category |-> category,
        resolution |-> resolution, score |-> score]]
  /\ pc' = [pc EXCEPT ![p] = "done"]
  /\ IF category.type \notin {"str", "bytes"}
     THEN /\ ret' = [ret EXCEPT ![p] = Raised("AttributeError")]
          /\ mem' = mem
     ELSE IF score.type # "float"
     THEN /\ ret' = [ret EXCEPT ![p] = Raised("TypeError")]
          /\ mem' = mem
     ELSE /\ ret' = [ret EXCEPT ![p] = Raised("TypeError")]
          /\ mem' = [mem EXCEPT ![p] = Append(mem[p],
               [id |-> Len(mem[p]) + 1, timestamp |-> now,
                category |-> BytesNormalize(category.value),
                resolution |-> resolution, score |-> Round3(score.value)])]
  /\ UNCHANGED <<file, log, issued, agent>>

\* _save_memory with a list json.dumps cannot write: TypeError leaves the
\* tool before the file is opened.
SaveDumpsFails(p) ==
  /\ pc[p] = "save_open"
  /\ ~Serializable(mem[p])
  /\ pc' = [pc EXCEPT ![p] = "done"]
  /\ ret' = [ret EXCEPT ![p] = Raised("TypeError")]
  /\ UNCHANGED <<file, mem, call, log, issued, agent>>

\* The tool's caller has the result (or the exception) and process p is
\* ready for its next call.
Return(p) ==
  /\ pc[p] = "done"
  /\ pc' = [pc EXCEPT ![p] = "idle"]
  /\ call' = [call EXCEPT ![p] = NoCall]
  /\ ret' = [ret EXCEPT ![p] = NoRet]
  /\ UNCHANGED <<file, mem, log, issued, agent>>

ReadingTools ==
  {"retrieve_experiences", "get_improvement_stats", "get_experience_timeline"}

\* ------------------------------------------------------------ one process
\* Every call of tools.py by process p, each file write succeeding.
ToolCalls(p) ==
  \/ Import(p)
  \/ Exit(p)
  \/ \E i \in StoreInputs :
        StoreBegin(p, i.category, i.resolution, i.score, i.now)
  \/ ClearBegin(p)
  \/ SaveOpen(p)
  \/ SaveWrite(p)
  \/ \E c \in QueryCategories, k \in TopKs : Retrieve(p, c, k)
  \/ Stats(p)
  \/ Timeline(p)
  \/ Return(p)

\* One process uses the experience memory.
Next == ToolCalls(Writer)

Spec == Init /\ [][Next]_vars

\* ------------------------------------------------------------ several writers
\* Calls made when several processes write, or when writes may fail: the
\* resolution text and the score are the same in every call.
WriterInputs ==
  {[category |-> c, resolution |-> "restart the service", score |-> 9000,
    now |-> "2026-01-01T09:00:00"] : c \in {Network}}

\* The calls of a process that stores and retrieves beside other processes.
WriterCalls(p) ==
  \/ Import(p)
  \/ ImportFails(p)
  \/ \E i \in WriterInputs :
        StoreBegin(p, i.category, i.resolution, i.score, i.now)
  \/ SaveOpen(p)
  \/ SaveWrite(p)
  \/ Retrieve(p, Net, 3)
  \/ ReadFails(p, "retrieve_experiences")
  \/ Return(p)

NextWriters == \E p \in Procs : WriterCalls(p)

\* Separate processes share the memory file; no lock orders them.
SpecWriters == Init /\ [][NextWriters]_vars

\* ------------------------------------------------------------ several clearers
\* The calls of a process that stores, clears and retrieves beside other
\* processes.
ClearerCalls(p) ==
  \/ Import(p)
  \/ \E i \in WriterInputs :
        StoreBegin(p, i.category, i.resolution, i.score, i.now)
  \/ ClearBegin(p)
  \/ SaveOpen(p)
  \/ SaveWrite(p)
  \/ Retrieve(p, Net, 3)
  \/ Return(p)

NextClearers == \E p \in Procs : ClearerCalls(p)

\* Separate processes store into and clear the shared memory file.
SpecClearers == Init /\ [][NextClearers]_vars

\* ------------------------------------------------------------ failing writes
\* One process, and Path.write_text may fail in either half.
NextFaults ==
  \/ Import(Writer)
  \/ ImportFails(Writer)
  \/ Exit(Writer)
  \/ \E i \in WriterInputs :
        StoreBegin(Writer, i.category, i.resolution, i.score, i.now)
  \/ ClearBegin(Writer)
  \/ SaveOpen(Writer)
  \/ SaveWrite(Writer)
  \/ SaveOpenFails(Writer)
  \/ SaveWriteFails(Writer)
  \/ \E k \in TopKs : Retrieve(Writer, Net, k)
  \/ \E op \in ReadingTools : ReadFails(Writer, op)
  \/ Return(Writer)

SpecFaults == Init /\ [][NextFaults]_vars

\* ------------------------------------------------------------ store and clear
\* Calls of store_experience with any number as the score: -0.25, 0.9,
\* 1.0004 and 1.5.
AnyScoreInputs ==
  {[category |-> Cpu, resolution |-> "restart the service", score |-> sc,
    now |-> "2026-01-01T09:00:00"] : sc \in {-2500, 9000, 10004, 15000}}

\* One process that stores and clears, and restarts.
NextClears ==
  \/ Import(Writer)
  \/ Exit(Writer)
  \/ \E i \in AnyScoreInputs :
        StoreBegin(Writer, i.category, i.resolution, i.score, i.now)
  \/ ClearBegin(Writer)
  \/ SaveOpen(Writer)
  \/ SaveWrite(Writer)
  \/ Return(Writer)

SpecClears == Init /\ [][NextClears]_vars

\* ------------------------------------------------------------ malformed calls
\* One process, whose callers also pass arguments of the wrong type.
NextMalformed ==
  \/ Import(Writer)
  \/ Exit(Writer)
  \/ \E i \in {j \in StoreInputs : j.score = 9000} :
        StoreBegin(Writer, i.category, i.resolution, i.score, i.now)
  \/ \E i \in MalformedInputs :
        StoreMalformed(Writer, i.category, i.resolution, i.score, i.now)
  \/ SaveOpen(Writer)
  \/ SaveDumpsFails(Writer)
  \/ SaveWrite(Writer)
  \/ Return(Writer)

SpecMalformed == Init /\ [][NextMalformed]_vars

\* ------------------------------------------------------------ agent.py
\* max_iterations of improvement_loop.
MaxIterations == 5
\* "If overall score >= 0.85", in ten-thousandths.
QualityThreshold == 8500

\* Overall scores the critic may compute, and categories triage may name.
CriticScores == {7000, 8496, 8500, 9000}
IncidentCategories == {Cpu}
RunClock == "2026-01-01T09:00:00"

\* output_key of the agent that runs in a stage.
OutputKey(st) ==
  CASE st = "triage" -> "triage_report"
    [] st = "resolution" -> "resolution_proposal"
    [] st = "critic" -> "evaluation_result"
    [] st = "refiner" -> "resolution_proposal"
    [] st = "narrator" -> "narration"

\* The stages in which an agent calls the model.
ModelStages == {"triage", "resolution", "critic", "refiner", "narrator"}

\* How the loop has ended, in the words of the design: CONVERGED when the
\* refiner's exit_loop escalated, EXHAUSTED when max_iterations was reached.
LoopState ==
  CASE loop = "escalated" -> "CONVERGED"
    [] loop = "max_iterations" -> "EXHAUSTED"
    [] OTHER -> "ITERATING"

\* A mutant of AfterLoop: the critic runs again once the loop has ended.
AfterLoopResumes == "critic"

\* A mutant of AfterLoop: the run aborts once the loop has ended.
AfterLoopAborts == "aborted"

\* A mutant of AfterLoop: the narrator follows the loop, configured or not.
AfterLoopNarratesAlways == "narrator"

\* _pipeline: what follows improvement_loop.
AfterLoop == IF elevenlabs THEN "narrator" ELSE "finished"

\* The list of process p after a tool refreshed it from the file.
Refreshed(p) == [mem EXCEPT ![p] = LoadMemory(mem[p])]

\* An incident is given to root_agent: in a new session, or as the next
\* message of the session of the run before.  first_pass is the place of
\* the first score of 0.85 or more among the scores the critic computes for
\* the proposals of this incident, 0 when there is none in max_iterations.
StartRun(fresh, first_pass) ==
  /\ stage \in {"idle", "finished", "aborted"}
  /\ pc[Writer] = "idle"
  /\ run.n < MaxRuns
  /\ stage' = "triage"
  /\ session' = IF fresh THEN EmptySession ELSE session
  /\ times_looped' = 0
  /\ loop' = "not_started"
  /\ run' = [n |-> run.n + 1, first_pass |-> first_pass, pass_score |-> 0,
             critics |-> 0, refiners |-> 0, stores |-> 0, before |-> file,
             stale |-> session'.quality_achieved]
  /\ UNCHANGED <<file, mem, pc, call, ret, log, issued, elevenlabs, mcp_tools>>

\* triage_agent: retrieve_experiences, the CMDB query when the ServiceNow
\* toolset is among its tools, then the report under triage_report.
Triage(category) ==
  /\ stage = "triage"
  /\ file.kind # "empty"
  /\ mem' = Refreshed(Writer)
  /\ session' = [session EXCEPT !.triage_report =
       [by |-> "triage_agent", run |-> run.n, category |-> category,
        cmdb |-> "servicenow" \in mcp_tools]]
  /\ stage' = "resolution"
  /\ UNCHANGED <<file, pc, call, ret, log, issued, elevenlabs, mcp_tools, times_looped, loop, run>>

\* resolution_agent: retrieve_experiences, then the proposal under
\* resolution_proposal; improvement_loop starts.
Resolution ==
  /\ stage = "resolution"
  /\ file.kind # "empty"
  /\ mem' = Refreshed(Writer)
  /\ session' = [session EXCEPT !.resolution_proposal =
       [by |-> "resolution_agent", run |-> run.n, rev |-> 0]]
  /\ stage' = "critic"
  /\ times_looped' = 0
  /\ loop' = "iterating"
  /\ UNCHANGED <<file, pc, call, ret, log, issued, elevenlabs, mcp_tools, run>>

\* score can be the critic's overall score in this iteration of the run.
ScoreOfIteration(score) ==
  LET i == times_looped + 1
  IN  /\ (run.first_pass = 0 \/ i < run.first_pass) => score < QualityThreshold
      /\ i = run.first_pass => score >= QualityThreshold

\* The history of the run after the critic computed score.
Scored(score) ==
  IF score >= QualityThreshold
  THEN [run EXCEPT !.critics = @ + 1, !.stores = @ + 1,
                   !.pass_score = IF times_looped + 1 = run.first_pass
                                  THEN score ELSE @]
  ELSE [run EXCEPT !.critics = @ + 1]

\* A mutant of CriticTools: the critic stores the resolution whatever the
\* score.
CriticToolsUngated(score) ==
  LET entry == NewEntry(mem[Writer], session.triage_report.category,
                        session.resolution_proposal, score, RunClock)
      list == Append(mem[Writer], entry)
  IN  /\ mem' = [mem EXCEPT ![Writer] = JsonLoads(JsonDumps(list))]
      /\ file' = JsonDumps(list)
      /\ log' = Append(log, [proc |-> Writer,
                             category |-> session.triage_report.category,
                             resolution |-> session.resolution_proposal,
                             score |-> score, entry |-> entry,
                             experience_id |-> entry.id])
      /\ issued' = Issued(entry.id)

\* The tools the critic calls: at a score of 0.85 or more,
\* mark_quality_achieved (with the critic's part of the session state),
\* store_experience with the category, the resolution and the score, and
\* get_improvement_stats, which refreshes the list from the file written;
\* below it, none.
CriticTools(score) ==
  IF score >= QualityThreshold
  THEN LET entry == NewEntry(mem[Writer], session.triage_report.category,
                             session.resolution_proposal, score, RunClock)
           list == Append(mem[Writer], entry)
       IN  /\ mem' = [mem EXCEPT ![Writer] = JsonLoads(JsonDumps(list))]
           /\ file' = JsonDumps(list)
           /\ log' = Append(log, [proc |-> Writer,
                                  category |-> session.triage_report.category,
                                  resolution |-> session.resolution_proposal,
                                  score |-> score, entry |-> entry,
                                  experience_id |-> entry.id])
           /\ issued' = Issued(entry.id)
  ELSE UNCHANGED <<mem, file, log, issued>>

\* critic_agent: the score, the tools, then the evaluation under
\* evaluation_result.
Critic(score) ==
  /\ stage = "critic"
  /\ ScoreOfIteration(score)
  /\ CriticTools(score)
  /\ session' = [session EXCEPT
       !.quality_achieved = IF score >= QualityThreshold THEN TRUE ELSE @,
       !.evaluation_result =
         [by |-> "critic_agent", run |-> run.n, score |-> score]]
  /\ run' = Scored(score)
  /\ stage' = "refiner"
  /\ UNCHANGED <<pc, call, ret, elevenlabs, mcp_tools, times_looped, loop>>

\* critic_agent, the model failing after the tools ran: the call that was
\* to word the evaluation raises, and the run aborts.
CriticFailsAfterTools(score) ==
  /\ stage = "critic"
  /\ ScoreOfIteration(score)
  /\ score >= QualityThreshold
  /\ CriticTools(score)
  /\ session' = [session EXCEPT !.quality_achieved = TRUE]
  /\ run' = Scored(score)
  /\ stage' = "aborted"
  /\ UNCHANGED <<pc, call, ret, elevenlabs, mcp_tools, times_looped, loop>>

\* A mutant of RefinerExits: the refiner never calls exit_loop.
RefinerExitsNever == FALSE

\* The refiner's reading of quality_achieved: exit_loop when it is True.
RefinerExits == session.quality_achieved

\* A mutant of LoopEnds: the loop allows one iteration more.
LoopEndsLate(n) == n >= MaxIterations + 1

\* A mutant of LoopEnds: each optional toolset loaded costs an iteration.
LoopEndsByToolsets(n) == n >= MaxIterations - Cardinality(mcp_tools)

\* improvement_loop: n iterations counted, the loop agent ends.
LoopEnds(n) == n >= MaxIterations

\* refiner_agent, the model calling exit_loop (exits) or not.  exit_loop
\* escalates and the loop agent ends; the refiner's closing words may or
\* may not reach resolution_proposal, the loop agent either draining the
\* refiner's events or leaving at the escalation.  Without exit_loop the
\* refiner calls retrieve_experiences and writes the next proposal; the
\* loop agent counts the iteration and ends at max_iterations.
RefinerStep(exits, closing) ==
  /\ stage = "refiner"
  /\ run' = [run EXCEPT !.refiners = @ + 1]
  /\ IF exits
     THEN /\ loop' = "escalated"
          /\ stage' = AfterLoop
          /\ session' = IF closing
               THEN [session EXCEPT !.resolution_proposal =
                       [by |-> "refiner_agent", run |-> run.n,
                        rev |-> times_looped, after |-> "exit_loop"]]
               ELSE session
          /\ UNCHANGED <<mem, times_looped>>
     ELSE /\ closing
          /\ file.kind # "empty"
          /\ mem' = Refreshed(Writer)
          /\ session' = [session EXCEPT !.resolution_proposal =
               [by |-> "refiner_agent", run |-> run.n,
                rev |-> times_looped + 1]]
          /\ times_looped' = times_looped + 1
          /\ loop' = IF LoopEnds(times_looped + 1)
                     THEN "max_iterations" ELSE "iterating"
          /\ stage' = IF LoopEnds(times_looped + 1)
                      THEN AfterLoop ELSE "critic"
  /\ UNCHANGED <<file, pc, call, ret, log, issued, elevenlabs, mcp_tools>>

\* refiner_agent, the model following its instruction: exit_loop exactly
\* when quality_achieved is True.
Refiner(closing) == RefinerStep(RefinerExits, closing)

\* A mutant of Narrator: the narrator has clear_experience_memory among its
\* tools and calls it.
NarratorClears ==
  /\ stage = "narrator"
  /\ session' = [session EXCEPT !.narration =
       [by |-> "narrator_agent", run |-> run.n,
        of |-> session.resolution_proposal]]
  /\ stage' = "finished"
  /\ mem' = [mem EXCEPT ![Writer] = <<>>]
  /\ file' = JsonDumps(<<>>)
  /\ log' = <<>>
  /\ UNCHANGED <<pc, call, ret, issued, elevenlabs, mcp_tools, times_looped,
                 loop, run>>

\* narrator_agent: the narration under narration.
Narrator ==
  /\ stage = "narrator"
  /\ session' = [session EXCEPT !.narration =
       [by |-> "narrator_agent", run |-> run.n,
        of |-> session.resolution_proposal]]
  /\ stage' = "finished"
  /\ UNCHANGED <<file, mem, pc, call, ret, log, issued, elevenlabs, mcp_tools, times_looped,
                 loop, run>>

\* The model call of the running agent raises before the agent has called
\* a tool or written its key: the run aborts.
StageFails ==
  /\ stage \in ModelStages
  /\ stage' = "aborted"
  /\ UNCHANGED <<file, mem, pc, call, ret, log, issued, elevenlabs, mcp_tools, session,
                 times_looped, loop, run>>

\* One process runs incidents through root_agent, one after the other.
NextPipeline ==
  \/ Import(Writer)
  \/ Return(Writer)
  \/ \E fresh \in BOOLEAN, k \in 0..MaxIterations : StartRun(fresh, k)
  \/ \E c \in IncidentCategories : Triage(c)
  \/ Resolution
  \/ \E s \in CriticScores : Critic(s)
  \/ \E s \in CriticScores : CriticFailsAfterTools(s)
  \/ \E closing \in BOOLEAN : Refiner(closing)
  \/ Narrator
  \/ StageFails

InitPipeline == InitTools /\ \E key \in BOOLEAN : InitAgent(key)

SpecPipeline == InitPipeline /\ [][NextPipeline]_vars

\* ------------------------------------------------------------ any toolsets
\* The pipeline in every environment: each key present or not, and each
\* toolset whose key is present built or skipped.
InitToolsets ==
  /\ InitTools
  /\ \E env \in SUBSET McpServers : \E loaded \in SUBSET env :
        InitAgentEnv(env, loaded)

SpecToolsets == InitToolsets /\ [][NextPipeline]_vars

\* ------------------------------------------------------------ any refiner
\* The first incident of a process.
FirstRun(first_pass) == run.n = 0 /\ StartRun(TRUE, first_pass)

\* One run of the pipeline with a model that may or may not call exit_loop
\* in the refiner, whatever quality_achieved says.
NextLoop ==
  \/ Import(Writer)
  \/ Return(Writer)
  \/ \E k \in 0..MaxIterations : FirstRun(k)
  \/ \E c \in IncidentCategories : Triage(c)
  \/ Resolution
  \/ \E s \in CriticScores : Critic(s)
  \/ \E s \in CriticScores : CriticFailsAfterTools(s)
  \/ \E exits, closing \in BOOLEAN : RefinerStep(exits, closing)
  \/ Narrator
  \/ StageFails

\* The loop agent awaits its sub-agents one after the other: a call of the
\* critic or of the refiner that is under way returns or raises.
SpecLoop ==
  /\ InitPipeline
  /\ [][NextLoop]_vars
  /\ WF_vars(\E s \in CriticScores : Critic(s))
  /\ WF_vars(\E exits, closing \in BOOLEAN : RefinerStep(exits, closing))

\* ------------------------------------------------------------ claims
\* needle occurs in hay at some position.
OccursIn(needle, hay) ==
  \E i \in 0..(Len(hay) - Len(needle)) :
    SubSeq(hay, i + 1, i + Len(needle)) = needle

\* Process p has a result of the tool op in hand.
Got(p, op) == pc[p] = "done" /\ call[p].op = op /\ ~ret[p].raised

\* C1: the store calls a process makes after its most recent clear (or
\* since the empty start) are numbered 1, 2, 3, ... in call order: the k-th
\* returns experience_id = k and total_experiences = k, and the record at
\* position k of the store has id k.
C1_IdsCountFromOne ==
  /\ \A k \in 1..Len(mem[Writer]) : mem[Writer][k].id = k
  /\ Got(Writer, "store_experience") =>
       LET k == Len(log)
       IN  /\ k >= 1
           /\ ret[Writer].value.experience_id = k
           /\ ret[Writer].value.total_experiences = k
           /\ Len(mem[Writer]) = k
           /\ mem[Writer][k].id = k
           /\ JsonLoads(file)[k].id = k

\* The third store since a clear has returned.
C1_Witness ==
  /\ Got(Writer, "store_experience")
  /\ Len(log) = 3
  /\ ret[Writer].value.experience_id = 3

\* The entries the completed store calls built, in call order.
Inserted == [k \in 1..Len(log) |-> log[k].entry]

\* C5: after N successful store calls from an empty store, a process that
\* restarts and loads the file has exactly the N records inserted, in
\* insertion order, each with the id, timestamp, category, resolution and
\* score it was inserted with, the score being the one passed rounded to 3
\* decimals.
C5_ReloadYieldsInserted ==
  Got(Writer, "import") =>
    /\ mem[Writer] = Inserted
    /\ \A k \in 1..Len(log) :
         /\ mem[Writer][k].resolution = log[k].resolution
         /\ 10 * mem[Writer][k].score - 5 <= log[k].score
         /\ log[k].score <= 10 * mem[Writer][k].score + 5

\* A restarted process has loaded three records, the second of which was
\* stored with a score that rounding changed.
C5_Witness ==
  /\ Got(Writer, "import")
  /\ Len(log) = 3
  /\ Len(mem[Writer]) = 3
  /\ log[2].score = 7504
  /\ mem[Writer][2].score = 750

\* The positions of the refreshed list whose category contains the
\* lowercased, trimmed query.
Matching(p) ==
  {i \in 1..Len(mem[p]) :
     OccursIn(Normalize(call[p].category), mem[p][i].category)}

\* C9: retrieve(category, top_k) with top_k >= 0 returns the first top_k of
\* the matching records ordered by score, best first, records of equal
\* score in insertion order; this fixes the result, so repeated calls on
\* the same store return the same.
C9_RankedTopK ==
  Got(Writer, "retrieve_experiences") /\ call[Writer].top_k >= 0 =>
    LET list == mem[Writer]
        got == ret[Writer].value.experiences
        ids == {got[i].id : i \in 1..Len(got)}
    IN  /\ Len(got) = Min(call[Writer].top_k, Cardinality(Matching(Writer)))
        /\ \A i \in 1..Len(got) :
             got[i].id \in Matching(Writer) /\ list[got[i].id] = got[i]
        /\ \A i, j \in 1..Len(got) :
             i < j =>
               \/ got[i].score > got[j].score
               \/ got[i].score = got[j].score /\ got[i].id < got[j].id
        /\ \A m \in Matching(Writer) \ ids : \A i \in 1..Len(got) :
               \/ got[i].score > list[m].score
               \/ got[i].score = list[m].score /\ got[i].id < m

\* Scores 0.6, 0.9, 0.75 are stored in one category and retrieve with
\* top_k = 2 has returned the 0.9 record, then the 0.75 record.
C9_Witness ==
  /\ Got(Writer, "retrieve_experiences")
  /\ call[Writer].top_k = 2
  /\ Len(mem[Writer]) = 3
  /\ \A i \in 1..3 : mem[Writer][i].category = Cpu
  /\ mem[Writer][1].score = 600
  /\ mem[Writer][2].score = 900
  /\ mem[Writer][3].score = 750
  /\ ret[Writer].value.experiences = <<mem[Writer][2], mem[Writer][3]>>

\* C10: a stored record matches retrieve(q) exactly when the lowercased,
\* trimmed q occurs in its stored category, and a record stored with
\* category c is matched by retrieve(c), whatever the case and the
\* surrounding whitespace of c.
C10_SubstringMatch ==
  Got(Writer, "retrieve_experiences") =>
    LET list == mem[Writer]
        got == ret[Writer].value.experiences
        ids == {got[i].id : i \in 1..Len(got)}
        all == call[Writer].top_k >= Len(list)
    IN  /\ ret[Writer].value.total_matching = Cardinality(Matching(Writer))
        /\ ids \subseteq Matching(Writer)
        /\ all => ids = Matching(Writer)
        /\ \A k \in 1..Len(log) :
             log[k].category = call[Writer].category =>
               /\ ret[Writer].value.total_matching >= 1
               /\ all => log[k].experience_id \in ids

\* cpu, network and ssl are stored (the first two typed with capitals and
\* blanks) and retrieve("net") has returned the network record alone.
C10_Witness ==
  /\ Got(Writer, "retrieve_experiences")
  /\ call[Writer].category = Net
  /\ call[Writer].top_k = 3
  /\ Len(log) = 3
  /\ log[1].category = CpuShout
  /\ log[2].category = Network
  /\ log[3].category = Ssl
  /\ ret[Writer].value.total_matching = 1
  /\ ret[Writer].value.experiences = <<mem[Writer][2]>>
  /\ mem[Writer][2].category = <<"n","e","t","w","o","r","k">>

\* C2: store calls of separate processes on one file get ids that differ
\* from one another, and once the calls are over the file holds as many
\* records as calls were made.
C2_ConcurrentStoresKept ==
  /\ \A i, j \in 1..Len(log) :
       log[i].proc # log[j].proc =>
         log[i].experience_id # log[j].experience_id
  /\ (file.kind = "json" /\ \A p \in Procs : pc[p] \in {"off", "idle", "done"})
       => Len(file.rows) = Len(log)

\* C6: a retrieve that begins after a store of any process has completed
\* sees that store's record: total_stored counts it and, its category
\* matching and top_k being large enough, it is among the records returned.
C6_ReadAfterWrite ==
  \A p \in Procs :
    Got(p, "retrieve_experiences") =>
      LET got == ret[p].value.experiences
      IN  /\ ret[p].value.total_stored >= call[p].completed
          /\ \A k \in 1..call[p].completed :
               (/\ OccursIn(Normalize(call[p].category), log[k].entry.category)
                /\ call[p].top_k >= ret[p].value.total_matching)
               => \E i \in 1..Len(got) : got[i] = log[k].entry

\* C7: when the write inside store or clear fails the caller gets an
\* error, and the list in memory is what the file holds, so that a later
\* store numbers its record after the records on file and writes no record
\* whose own call failed.
C7_FailedWriteLeavesNoDifference ==
  /\ (/\ pc[Writer] = "done"
      /\ call[Writer].op \in {"store_experience", "clear_experience_memory"}
      /\ ret[Writer].raised)
       => /\ file.kind # "empty"
          /\ mem[Writer] = LoadMemory(<<>>)
  /\ Got(Writer, "store_experience") =>
       /\ ret[Writer].value.experience_id = Len(log)
       /\ JsonLoads(file) = Inserted

\* The loop of the current run is over.
LoopOver == run.n > 0 /\ loop \in {"escalated", "max_iterations"}

\* C3: when every score of the critic is below 0.85 the loop ends in
\* EXHAUSTED after exactly 5 executions of the critic and of the refiner;
\* the counter stays within 0..5, neither agent runs a sixth time, and
\* store is not called in the run.
C3_ExhaustedAfterFive ==
  /\ times_looped \in 0..MaxIterations
  /\ run.critics <= MaxIterations
  /\ run.refiners <= MaxIterations
  /\ (run.n > 0 /\ run.first_pass = 0) =>
       /\ run.stores = 0
       /\ LoopOver =>
            /\ LoopState = "EXHAUSTED"
            /\ times_looped = MaxIterations
            /\ run.critics = MaxIterations
            /\ run.refiners = MaxIterations

\* C4: when the first score of 0.85 or more is the k-th (1 <= k <= 5) the
\* loop ends in CONVERGED after exactly k executions of the critic, and
\* the run makes exactly one store call, with the k-th score.
C4_ConvergedAtFirstPass ==
  \A k \in 1..MaxIterations :
    (LoopOver /\ run.first_pass = k) =>
      /\ LoopState = "CONVERGED"
      /\ run.critics = k
      /\ run.stores = 1
      /\ run.pass_score >= QualityThreshold
      /\ log # <<>>
      /\ log[Len(log)].score = run.pass_score

\* C8: a run that a failing model call aborts leaves the experience store
\* as it was when the run began.
C8_AbortedRunStoresNothing ==
  stage = "aborted" => file = run.before

\* C11: once the loop is CONVERGED or EXHAUSTED it stays so for the rest of
\* the run: the critic and the refiner do not run again, nothing more is
\* stored, and evaluation_result and resolution_proposal are not written
\* again.
C11_LoopDoesNotResume ==
  [][(LoopOver /\ run'.n = run.n) =>
       /\ loop' = loop
       /\ times_looped' = times_looped
       /\ run' = run
       /\ log' = log
       /\ file' = file
       /\ session'.evaluation_result = session.evaluation_result
       /\ session'.resolution_proposal = session.resolution_proposal]_vars

\* The narrator has run after a loop that ended by exit_loop.
C11_Witness ==
  /\ loop = "escalated"
  /\ stage = "finished"
  /\ session.narration # Unset
  /\ session.narration.run = run.n

\* C12: whatever the critic scores and whether or not the model calls
\* exit_loop in the refiner, a loop whose stage calls return reaches
\* CONVERGED or EXHAUSTED, after at most 5 iterations.
C12_LoopTerminates ==
  /\ [](/\ times_looped <= MaxIterations
        /\ run.critics <= MaxIterations
        /\ run.refiners <= MaxIterations)
  /\ (loop = "iterating") ~> (LoopOver \/ stage = "aborted")

\* The critic scored 0.85 or more in the first iteration, the refiner never
\* called exit_loop, and the loop ended at max_iterations.
C12_Witness ==
  /\ loop = "max_iterations"
  /\ run.first_pass = 1
  /\ run.stores >= 1
  /\ times_looped = MaxIterations

\* The proposal the refiner wrote in the last iteration max_iterations
\* allows.
LastRefinement ==
  [by |-> "refiner_agent", run |-> run.n, rev |-> MaxIterations]

\* C13: a run whose loop ends in EXHAUSTED is not aborted for that: the
\* narrator, when it is in the pipeline, runs next and reads the
\* resolution_proposal of the refiner's 5th refinement, and the run
\* finishes.
C13_ExhaustedRunGoesOn ==
  /\ [](loop = "max_iterations" =>
         /\ session.resolution_proposal = LastRefinement
         /\ stage \in {"narrator", "finished", "aborted"}
         /\ stage = "aborted" => elevenlabs
         /\ (stage = "finished" /\ elevenlabs) =>
              session.narration =
                [by |-> "narrator_agent", run |-> run.n,
                 of |-> LastRefinement])
  /\ [][(loop # "max_iterations" /\ loop' = "max_iterations") =>
         stage' = IF elevenlabs THEN "narrator" ELSE "finished"]_vars

\* A run that ended in EXHAUSTED has finished, its narrator having read the
\* 5th refinement.
C13_Witness ==
  /\ loop = "max_iterations"
  /\ stage = "finished"
  /\ elevenlabs
  /\ session.narration # Unset
  /\ session.narration.of = LastRefinement

\* C14: a store call with a score that is not a number or a category that
\* is not text raises, and leaves the list in memory and the file as they
\* were; the next successful store is numbered as if the call had not been
\* made.
C14_MalformedStoreChangesNothing ==
  /\ [][(\E i \in MalformedInputs :
           StoreMalformed(Writer, i.category, i.resolution, i.score, i.now))
        => /\ ret'[Writer].raised
           /\ mem' = mem
           /\ file' = file]_vars
  /\ [](Got(Writer, "store_experience") =>
         ret[Writer].value.experience_id = Len(log))

\* C15: get_improvement_stats returns the empty result (count 0, no
\* averages, nothing divided) on an empty store, fresh or cleared, and
\* only then.
C15_EmptyStatsOnEmptyStore ==
  Got(Writer, "get_improvement_stats") =>
    /\ (ret[Writer].value = EmptyStats) <=> (mem[Writer] = <<>>)
    /\ (ret[Writer].value = EmptyStats) <=> (log = <<>>)
    /\ mem[Writer] # <<>> =>
         /\ DOMAIN ret[Writer].value # DOMAIN EmptyStats
         /\ ret[Writer].value.total_resolutions = Len(log)

\* Stats have been asked of a store that a clear emptied.
C15_Witness ==
  /\ Got(Writer, "get_improvement_stats")
  /\ file = JsonDumps(<<>>)
  /\ ret[Writer].value = EmptyStats

\* C16: a stage changes no key of the session state but its output key:
\* triage triage_report, resolution resolution_proposal, critic
\* evaluation_result, refiner resolution_proposal, narrator narration.
C16_StagesWriteOwnKey ==
  [][(stage \in ModelStages) =>
       (\A k \in DOMAIN session :
          (session'[k] # session[k]) => (k = OutputKey(stage)))]_vars

C18_IdsNeverReused ==
  [][\A p \in Procs :
       (Got(p, "store_experience")' /\ ~Got(p, "store_experience")) =>
         ret'[p].value.experience_id \notin issued]_vars

\* C19: the score of every record, in memory and in the file, lies in
\* [0.0, 1.0] (0..1000 thousandths), whatever number was passed to store.
C19_ScoresWithinUnitInterval ==
  /\ \A p \in Procs : \A i \in 1..Len(mem[p]) : mem[p][i].score \in 0..1000
  /\ \A i \in 1..Len(file.rows) : JsonLoads(file)[i].score \in 0..1000

\* Process p is in one of the reading tools.
Reading(p) == call[p].op \in ReadingTools

\* C20: stored records stay as they are.  Without a clear, the file and
\* the list hold the records stored, each at its place with the values it
\* was stored with; retrieve, stats and timeline leave the file as it is and
\* the list in insertion order; a clear removes every record.
C20_StoredRecordsImmutable ==
  /\ [](/\ file.kind = "json" => JsonLoads(file) = Inserted
        /\ pc[Writer] \in {"idle", "done"} => mem[Writer] = Inserted
        /\ Got(Writer, "clear_experience_memory") =>
             file = JsonDumps(<<>>) /\ mem[Writer] = <<>>)
  /\ [][Reading(Writer)' => file' = file /\ log' = log]_vars
  /\ [][(log' # log) =>
         \/ Len(log') = Len(log) + 1 /\ SubSeq(log', 1, Len(log)) = log
         \/ call[Writer].op = "clear_experience_memory" /\ log' = <<>>]_vars

\* retrieve has sorted its matches, 0.9 before 0.6, and the file still
\* holds the 0.6 record first.
C20_Witness ==
  /\ Got(Writer, "retrieve_experiences")
  /\ Len(ret[Writer].value.experiences) = 2
  /\ ret[Writer].value.experiences[1].id = 2
  /\ ret[Writer].value.experiences[1].score = 900
  /\ ret[Writer].value.experiences[2].score = 600
  /\ JsonLoads(file)[1].score = 600
  /\ JsonLoads(file) = Inserted

\* The stage that may follow a stage within a run: the order of _pipeline
\* and, inside improvement_loop, of its sub_agents.
FollowsInOrder(before, after) ==
  \/ before = "triage" /\ after = "resolution"
  \/ before = "resolution" /\ after = "critic"
  \/ before = "critic" /\ after = "refiner"
  \/ before = "refiner" /\ after = "critic" /\ loop' = "iterating"
  \/ before = "refiner" /\ after = "narrator" /\ elevenlabs
       /\ loop' \in {"escalated", "max_iterations"}
  \/ before = "refiner" /\ after = "finished" /\ ~elevenlabs
       /\ loop' \in {"escalated", "max_iterations"}
  \/ before = "narrator" /\ after = "finished"
  \/ before \in ModelStages /\ after = "aborted"

\* C21: within a run the stages execute one at a time in the order triage,
\* resolution, critic and refiner in turn, then the narrator when it is
\* configured; a stage starts only when the stage before it has written its
\* output key in this run, and the critic of an iteration runs before the
\* refiner of that iteration, which runs before the critic of the next.
C21_StagesInOrder ==
  /\ [](/\ stage = "resolution" =>
             /\ session.triage_report # Unset
             /\ session.triage_report.run = run.n
        /\ stage = "critic" =>
             /\ session.resolution_proposal # Unset
             /\ session.resolution_proposal.run = run.n
             /\ session.resolution_proposal.rev = times_looped
             /\ run.critics = times_looped
             /\ run.refiners = times_looped
        /\ stage = "refiner" =>
             /\ session.evaluation_result # Unset
             /\ session.evaluation_result.run = run.n
             /\ run.critics = times_looped + 1
             /\ run.refiners = times_looped
        /\ stage = "narrator" => LoopOver)
  /\ [][(stage' # stage /\ run'.n = run.n) => FollowsInOrder(stage, stage')]_vars
  /\ [][(run'.n # run.n) => (stage' = "triage" /\ stage \notin ModelStages)]_vars

\* A run has gone through triage, resolution, two iterations of the loop
\* and the narrator.
C21_Witness ==
  /\ stage = "finished"
  /\ elevenlabs
  /\ run.critics = 2
  /\ run.refiners = 2
  /\ session.narration # Unset
  /\ session.narration.run = run.n

\* The counts of a by_category result, added up over the categories cats.
RECURSIVE SumCounts(_, _)
SumCounts(by_category, cats) ==
  IF cats = {} THEN 0
  ELSE LET c == CHOOSE x \in cats : TRUE
       IN  by_category[c].count + SumCounts(by_category, cats \ {c})

\* C22: on a store that is not empty get_improvement_stats reports the
\* number of records as the total, the score of the record inserted last
\* as the latest (whether or not it is the highest), the last record's
\* score minus the first record's as the improvement (negative when the
\* last is lower, 0 for one record), the highest score as the best, and
\* per category a count of its records, the counts adding up to the total.
C22_StatsOfStore ==
  (Got(Writer, "get_improvement_stats") /\ log # <<>>) =>
    LET v == ret[Writer].value
        n == Len(log)
    IN  /\ v.total_resolutions = n
        /\ v.latest_score = log[n].entry.score
        /\ v.improvement_first_to_last =
             log[n].entry.score - log[1].entry.score
        /\ n = 1 => v.improvement_first_to_last = 0
        /\ \A i \in 1..n : v.best_score >= log[i].entry.score
        /\ \E i \in 1..n : v.best_score = log[i].entry.score
        /\ DOMAIN v.by_category = {log[i].entry.category : i \in 1..n}
        /\ \A c \in DOMAIN v.by_category :
             v.by_category[c].count =
               Cardinality({i \in 1..n : log[i].entry.category = c})
        /\ SumCounts(v.by_category, DOMAIN v.by_category) = n

\* Stats have been asked of a store whose last record scores lower than
\* its first, with records of two categories.
C22_Witness ==
  /\ Got(Writer, "get_improvement_stats")
  /\ Len(log) >= 2
  /\ JsonLoads(file) = Inserted
  /\ log[Len(log)].entry.score < log[1].entry.score
  /\ ret[Writer].value.latest_score < ret[Writer].value.best_score
  /\ ret[Writer].value.improvement_first_to_last < 0
  /\ Cardinality(DOMAIN ret[Writer].value.by_category) = 2

\* C23: the loop and the store behave the same whichever optional toolsets
\* are loaded.  How the loop of a run ends, after how many iterations, with
\* which store calls and leaving which file is fixed by the file and the
\* session the run began with and by the critic's scores (the place and
\* the value of the first score of 0.85 or more), in the same way in every
\* environment: two runs that differ in the toolsets alone agree on all of
\* them.
C23_ToolsetsDoNotMatter ==
  LoopOver =>
    LET k == run.first_pass
        iterations == IF run.stale THEN 1
                      ELSE IF k > 0 THEN k ELSE MaxIterations
        stored == k > 0 /\ k <= iterations
        before == JsonLoads(run.before)
        proposal == [by |-> IF k = 1 THEN "resolution_agent"
                            ELSE "refiner_agent",
                     run |-> run.n, rev |-> k - 1]
        entry == NewEntry(before, session.triage_report.category, proposal,
                          run.pass_score, RunClock)
    IN  /\ LoopState = IF run.stale \/ k > 0 THEN "CONVERGED" ELSE "EXHAUSTED"
        /\ run.critics = iterations
        /\ run.refiners = iterations
        /\ times_looped = IF LoopState = "CONVERGED" THEN iterations - 1
                          ELSE iterations
        /\ run.stores = IF stored THEN 1 ELSE 0
        /\ file = IF stored THEN JsonDumps(Append(before, entry))
                  ELSE run.before
        /\ stored => /\ log # <<>>
                     /\ log[Len(log)].entry = entry
                     /\ log[Len(log)].score = run.pass_score

\* With all three toolsets loaded, the loop of a second run has ended in
\* its third iteration and its record follows the first run's in the file.
C23_Witness ==
  /\ LoopOver
  /\ mcp_tools = McpServers
  /\ session.triage_report.cmdb
  /\ run.n = 2
  /\ ~run.stale
  /\ run.first_pass = 3
  /\ run.critics = 3
  /\ Len(JsonLoads(file)) = 2

\* C24: for every integer top_k, 0 and negative ones included,
\* retrieve_experiences returns at most top_k entries (none when top_k is
\* 0 or less), total_matching is the number of matching records before the
\* cut, and total_stored the number of records in the store.
C24_AtMostTopK ==
  Got(Writer, "retrieve_experiences") =>
    /\ Len(ret[Writer].value.experiences) <= Max(call[Writer].top_k, 0)
    /\ call[Writer].top_k <= 0 => ret[Writer].value.experiences = <<>>
    /\ ret[Writer].value.total_matching = Cardinality(Matching(Writer))
    /\ ret[Writer].value.total_stored = Len(JsonLoads(file))

\* C25: in the iteration in which the critic scores 0.85 or more the loop
\* ends in CONVERGED without the refiner running (the refiner runs only
\* after a score below 0.85), so that resolution_proposal after a CONVERGED
\* loop is the proposal the critic accepted, the one whose record was
\* stored.
C25_AcceptedProposalStays ==
  (LoopOver /\ run.first_pass > 0 /\ run.critics = run.first_pass) =>
    /\ LoopState = "CONVERGED"
    /\ run.refiners = run.critics - 1
    /\ log # <<>>
    /\ session.resolution_proposal = log[Len(log)].resolution

\* C26: every record in the store passed the quality gate.  After any
\* number of runs each stored score is 0.85 or more, and a run adds a
\* record only in an iteration whose critic score was 0.85 or more.
C26_StoredPassedGate ==
  /\ [](/\ \A i \in 1..Len(JsonLoads(file)) :
             JsonLoads(file)[i].score >= Round3(QualityThreshold)
        /\ \A i \in 1..Len(log) : log[i].score >= QualityThreshold)
  /\ [][(file' # file) =>
          /\ stage = "critic"
          /\ run'.critics = run.critics + 1
          /\ log' # <<>>
          /\ SubSeq(log', 1, Len(log') - 1) = log
          /\ log'[Len(log')].score >= QualityThreshold
          /\ JsonLoads(file') = Append(JsonLoads(file), log'[Len(log')].entry)
          /\ log'[Len(log')].entry.score = Round3(log'[Len(log')].score)]_vars

\* Two runs have stored a record each, the second in its second iteration
\* with a score of exactly 0.85, after a first iteration that stored none.
C26_Witness ==
  /\ run.n = 2
  /\ LoopOver
  /\ run.first_pass = 2
  /\ run.critics = 2
  /\ run.pass_score = QualityThreshold
  /\ Len(JsonLoads(file)) = 2
  /\ JsonLoads(file)[2].score = Round3(QualityThreshold)

\* The records the current run has stored: the last run.stores of the log.
StoredInRun ==
  SubSeq(Inserted, Len(log) - run.stores + 1, Len(log))

\* C27: of the stages only the critic changes the store.  Triage,
\* resolution, the refiner and the narrator, which at most call
\* retrieve_experiences, leave the file as it is, and the records after a
\* run are the records before it followed by those its loop stored.
C27_OnlyCriticWrites ==
  /\ [][(stage \in {"triage", "resolution", "refiner", "narrator"}) =>
          (file' = file /\ log' = log /\ issued' = issued)]_vars
  /\ [][(file' # file) => (stage = "critic" /\ loop = "iterating")]_vars
  /\ [](run.n > 0 =>
          /\ run.stores <= Len(log)
          /\ JsonLoads(file) = JsonLoads(run.before) \o StoredInRun
          /\ run.stores = 0 => file = run.before)

\* A second run has finished after two refinements, a stored record and
\* the narrator; the file holds the first run's record and then this one.
C27_Witness ==
  /\ stage = "finished"
  /\ elevenlabs
  /\ run.n = 2
  /\ run.refiners = 3
  /\ run.stores = 1
  /\ session.narration.run = 2
  /\ Len(JsonLoads(run.before)) = 1
  /\ Len(JsonLoads(file)) = 2

\* C28: quality_achieved is not True when the loop of a run starts, so a
\* first run that ended in CONVERGED cannot make the loop of the second run
\* end in its first iteration on a score below 0.85.
C28_MarkerClearedPerRun ==
  /\ (stage = "critic" /\ run.critics = 0) => ~session.quality_achieved
  /\ (LoopOver /\ LoopState = "CONVERGED") =>
       session.evaluation_result.score >= QualityThreshold

\* C29: records that a completed clear removed do not come back.  A store
\* call that begins when no store has completed since the last completed
\* clear, made by a process whose list was loaded before that clear, leaves
\* a file that holds the new record alone, with id 1.
C29_ClearedRecordsStayGone ==
  [][(\A p \in Procs :
        (/\ pc[p] = "save_write"
         /\ pc'[p] = "done"
         /\ call[p].op = "store_experience"
         /\ call[p].completed = 0) =>
          /\ call[p].entry.id = 1
          /\ JsonLoads(file') = <<call[p].entry>>)]_vars

====
